---- MODULE Spec2Model ----
(***************************************************************************)
(* Model of electron::TitleBar and electron::IconView                      *)
(* (shell/browser/ui/views/title_bar.cc).                                  *)
(*                                                                         *)
(* The title bar is a composite view owning seven children (hamburger      *)
(* button, icon view, title label, minimize / maximize / restore / close   *)
(* caption buttons).  The model keeps the children's bounds and            *)
(* visibility, the title text, the background colour, the attachment to a  *)
(* widget, the widget's observer list and window state, and a record of    *)
(* what the most recent handler did (the window operations it called, the  *)
(* hit-test code it returned, what it painted).                            *)
(*                                                                         *)
(* The toolkit and the operating system are the environment: preferred     *)
(* button sizes and system metrics are inputs fixed at start-up, the       *)
(* window title, the window state and the title bar's own bounds change    *)
(* through environment actions.                                            *)
(***************************************************************************)
EXTENDS Integers, Sequences, FiniteSets, TLC

\* ------------------------------------------------------------------ bounds
MaxWidth == 10
MaxHeight == 2
MaxPref == 2
MaxMetric == 2

\* ------------------------------------------------------- program constants
kIconTitleSpacing == 5
kMaximizedLeftMargin == 2
kMinimumTitleLeftBorderMargin == 11
kFaviconSize == 16

\* --------------------------------------------------------------- children
\* Child views in the order the constructor adds them (z-order, back to front).
ChildOrder ==
  << "hamburger_button_", "window_icon_", "window_title_", "minimize_button_",
     "maximize_button_", "restore_button_", "close_button_" >>

Children == { ChildOrder[i] : i \in 1..Len(ChildOrder) }

CaptionButtons ==
  { "minimize_button_", "maximize_button_", "restore_button_", "close_button_" }

\* The WindowsCaptionButton instances made by CreateCaptionButton.
Buttons == CaptionButtons \cup { "hamburger_button_" }

\* Every views::Button whose listener is the title bar.
Senders == Buttons \cup { "window_icon_" }

\* The view id each child is constructed with; 0 (VIEW_ID_NONE) when none is set.
ViewID(c) ==
  CASE c = "hamburger_button_" -> "VIEW_ID_HAMBURGER_BUTTON"
    [] c = "window_title_"     -> "VIEW_ID_WINDOW_TITLE"
    [] c = "minimize_button_"  -> "VIEW_ID_MINIMIZE_BUTTON"
    [] c = "maximize_button_"  -> "VIEW_ID_MAXIMIZE_BUTTON"
    [] c = "restore_button_"   -> "VIEW_ID_RESTORE_BUTTON"
    [] c = "close_button_"     -> "VIEW_ID_CLOSE_BUTTON"
    [] OTHER                   -> "VIEW_ID_NONE"

\* ------------------------------------------------------------------ state
VARIABLES
  hasWidget,      \* GetWidget() != nullptr
  everAdded,      \* AddedToWidget has run at least once
  observers,      \* how many times the title bar is in the widget's observer list
  win,            \* the widget's window state
  delegateTitle,  \* widget_delegate()->GetWindowTitle()
  bounds,         \* the title bar's own bounds (origin 0,0): [w, h]
  child,          \* bounds and visibility of each child view
  text,           \* window_title_'s text
  background,     \* the colour of the title bar's solid background
  pref,           \* GetPreferredSize() of each caption button
  metrics,        \* display::win::ScreenWin::GetSystemMetricsInDIP
  halted,         \* the process has crashed on a null widget
  last            \* what the most recent handler did

vars ==
  << hasWidget, everAdded, observers, win, delegateTitle, bounds, child, text,
     background, pref, metrics, halted, last >>

WinStates == { "normal", "maximized", "minimized", "closed" }

Titles == { "a", "b" }

MetricNames ==
  { "SM_CYCAPTION", "SM_CYSIZEFRAME", "SM_CYEDGE", "SM_CYSMICON", "SM_CXSIZEFRAME" }

\* Preferred sizes: every button narrow and tall, one button wide and short,
\* or every button wide and short.
NarrowTall == [w |-> 1, h |-> MaxPref]

WideShort == [w |-> MaxPref, h |-> 1]

DefaultPref == [b \in Buttons |-> NarrowTall]

PrefTables ==
  { DefaultPref, [b \in Buttons |-> WideShort] }
    \cup { [DefaultPref EXCEPT ![b] = WideShort] : b \in Buttons }

\* System metrics: every metric 1, one metric large, or every metric large.
DefaultMetrics == [m \in MetricNames |-> 1]

MetricTables ==
  { DefaultMetrics, [m \in MetricNames |-> MaxMetric] }
    \cup { [DefaultMetrics EXCEPT ![n] = MaxMetric] : n \in MetricNames }

\* Sizes of the bitmap made from the application icon.
ImageSizes == { kFaviconSize, 2 * kFaviconSize }

\* The sizes the parent gives the title bar: empty, too narrow for its buttons,
\* and wide enough to leave room for the title.
Widths == { 0, MaxPref + 1, MaxWidth }

\* Points to hit-test: the row y = 0 crosses every button, the row y = 1 passes
\* below the short ones; the column MaxWidth lies outside every title bar.
Points == { <<x, y>> : x \in 0..MaxWidth, y \in 0..1 }

\* ------------------------------------------------------------- arithmetic
\* C++ integer division truncates toward zero.
CDiv(a, b) == IF a >= 0 THEN a \div b ELSE -((-a) \div b)

\* Mutant: the width is not clamped at zero.
Max_NoClamp(a, b) == b

Max(a, b) == IF a >= b THEN a ELSE b

\* gfx::Rect
Right(r) == r.x + r.w

Bottom(r) == r.y + r.h

Contains(r, p) ==
  /\ p[1] >= r.x
  /\ p[1] < Right(r)
  /\ p[2] >= r.y
  /\ p[2] < Bottom(r)

\* views::View::SetBounds on a child.
SetBounds(ch, c, x, y, w, h) ==
  [ch EXCEPT ![c] = [@ EXCEPT !.x = x, !.y = y, !.w = w, !.h = h]]

SetVisible(ch, c, v) == [ch EXCEPT ![c] = [@ EXCEPT !.visible = v]]

\* ------------------------------------------------------------ the widget
IsMaximized == win = "maximized"

\* views::Widget's window operations, as the window manager carries them out.
WidgetOp(op, w) ==
  IF w = "closed" THEN "closed"
  ELSE CASE op = "Minimize" -> "minimized"
         [] op = "Maximize" -> "maximized"
         [] op = "Restore"  -> "normal"
         [] op = "CloseWithReason(kCloseButtonClicked)" -> "closed"

RECURSIVE ApplyOps(_, _)
ApplyOps(ops, w) ==
  IF ops = << >> THEN w ELSE ApplyOps(Tail(ops), WidgetOp(Head(ops), w))

\* base::ObserverList, kept as the number of registrations of the title bar.
RemoveObserver(n) == IF n > 0 THEN n - 1 ELSE 0

AddObserver(n) == n + 1

\* Mutant: the title bar is added without being removed first.
RegisterObserver_NoRemove(n) == AddObserver(n)

\* AddedToWidget: RemoveObserver(this), then AddObserver(this).
RegisterObserver(n) == AddObserver(RemoveObserver(n))

\* ------------------------------------------------------------- TitleBar
ShowTitle == TRUE

ShowIcon == FALSE

ShowHamburgerMenu == TRUE

\* Mutant: the edge is dropped when the window is not maximized.
Height_Inverted(m, attached, maximized) ==
  m["SM_CYCAPTION"] + m["SM_CYSIZEFRAME"]
    + (IF attached /\ maximized THEN m["SM_CYEDGE"] ELSE 0)

Height(m, attached, maximized) ==
  m["SM_CYCAPTION"] + m["SM_CYSIZEFRAME"]
    + (IF attached /\ maximized THEN 0 ELSE m["SM_CYEDGE"])

\* The theme provider comes from the widget; without one the frame is white.
GetFrameColor(attached, isActive) ==
  IF attached
    THEN (IF isActive THEN "COLOR_FRAME" ELSE "COLOR_FRAME_INACTIVE")
    ELSE "SK_ColorWHITE"

\* Mutant: the button starts at the previous button's left edge.
LayoutCaptionButton_IgnoresWidth(ch, button, previous_button_x, p) ==
  SetBounds(ch, button, previous_button_x, 0, p[button].w, p[button].h)

LayoutCaptionButton(ch, button, previous_button_x, p) ==
  SetBounds(ch, button, previous_button_x - p[button].w, 0,
            p[button].w, p[button].h)

\* Mutant: the two visibilities are swapped.
LayoutCaptionButtons_SwappedVisibility(ch, width, maximized, p) ==
  LET c1 == LayoutCaptionButton(ch, "close_button_", width, p)
      c2 == SetVisible(
              LayoutCaptionButton(c1, "restore_button_", c1["close_button_"].x, p),
              "restore_button_", ~maximized)
      c3 == SetVisible(
              LayoutCaptionButton(c2, "maximize_button_", c2["close_button_"].x, p),
              "maximize_button_", maximized)
  IN  LayoutCaptionButton(c3, "minimize_button_", c3["maximize_button_"].x, p)

\* Mutant: the maximize button's visibility is never written.
LayoutCaptionButtons_MaximizeNotHidden(ch, width, maximized, p) ==
  LET c1 == LayoutCaptionButton(ch, "close_button_", width, p)
      c2 == SetVisible(
              LayoutCaptionButton(c1, "restore_button_", c1["close_button_"].x, p),
              "restore_button_", maximized)
      c3 == LayoutCaptionButton(c2, "maximize_button_", c2["close_button_"].x, p)
  IN  LayoutCaptionButton(c3, "minimize_button_", c3["maximize_button_"].x, p)

LayoutCaptionButtons(ch, width, maximized, p) ==
  LET c1 == LayoutCaptionButton(ch, "close_button_", width, p)
      c2 == SetVisible(
              LayoutCaptionButton(c1, "restore_button_", c1["close_button_"].x, p),
              "restore_button_", maximized)
      c3 == SetVisible(
              LayoutCaptionButton(c2, "maximize_button_", c2["close_button_"].x, p),
              "maximize_button_", ~maximized)
  IN  LayoutCaptionButton(c3, "minimize_button_", c3["maximize_button_"].x, p)

\* Returns the children and the title text after LayoutTitleBar.
LayoutTitleBar(ch, txt, maximized, title, p, m) ==
  IF ~ShowIcon /\ ~ShowTitle THEN [child |-> ch, text |-> txt]
  ELSE
    LET icon_size == m["SM_CYSMICON"]
        leading0 == m["SM_CXSIZEFRAME"]
                      + (IF maximized THEN kMaximizedLeftMargin ELSE 0)
        next_trailing_x == ch["minimize_button_"].x
        y == CDiv(Height(m, TRUE, maximized) - icon_size, 2)
        window_icon_bounds ==
          [x |-> leading0, y |-> y, w |-> icon_size, h |-> icon_size]
        c1 == IF ShowIcon
                THEN SetBounds(ch, "window_icon_", window_icon_bounds.x,
                               window_icon_bounds.y, window_icon_bounds.w,
                               window_icon_bounds.h)
              ELSE IF ShowHamburgerMenu
                THEN SetBounds(ch, "hamburger_button_", 0, 0,
                               p["hamburger_button_"].w, p["hamburger_button_"].h)
              ELSE ch
        leading1 == IF ShowIcon
                      THEN Right(window_icon_bounds) + kIconTitleSpacing
                    ELSE IF ShowHamburgerMenu
                      THEN Right(c1["hamburger_button_"]) + kIconTitleSpacing
                    ELSE leading0
        next_leading_x == IF ShowTitle /\ ~ShowIcon /\ ~ShowHamburgerMenu
                            THEN kMinimumTitleLeftBorderMargin
                            ELSE leading1
        max_text_width == Max(0, next_trailing_x - next_leading_x)
    IN  IF ShowTitle
          THEN [child |-> SetBounds(c1, "window_title_", next_leading_x,
                                    window_icon_bounds.y, max_text_width,
                                    window_icon_bounds.h),
                text |-> title]
          ELSE [child |-> c1, text |-> txt]

\* Mutant: Layout does not look for the widget.
Layout_NoWidgetCheck(ch, txt, attached, width, maximized, title, p, m) ==
  LayoutTitleBar(LayoutCaptionButtons(ch, width, maximized, p),
                 txt, maximized, title, p, m)

\* TitleBar::Layout on the children ch and title text txt.
Layout(ch, txt, attached, width, maximized, title, p, m) ==
  IF attached
    THEN LayoutTitleBar(LayoutCaptionButtons(ch, width, maximized, p),
                        txt, maximized, title, p, m)
    ELSE [child |-> ch, text |-> txt]

\* views::View::GetEventHandlerForPoint: the frontmost visible child whose
\* bounds contain the point, else the title bar itself.
RECURSIVE HandlerFrom(_, _, _)
HandlerFrom(i, ch, p) ==
  IF i = 0 THEN "title_bar"
  ELSE IF ch[ChildOrder[i]].visible /\ Contains(ch[ChildOrder[i]], p)
    THEN ChildOrder[i]
    ELSE HandlerFrom(i - 1, ch, p)

GetEventHandlerForPoint(ch, p) == HandlerFrom(Len(ChildOrder), ch, p)

\* Mutant: the restore button is missing from the switch.
NonClientHitTestCode_NoRestoreCase(b, ch, p) ==
  IF Contains([x |-> 0, y |-> 0, w |-> b.w, h |-> b.h], p)
    THEN (IF ViewID(GetEventHandlerForPoint(ch, p))
                \in { "VIEW_ID_MINIMIZE_BUTTON", "VIEW_ID_MAXIMIZE_BUTTON",
                      "VIEW_ID_CLOSE_BUTTON" }
            THEN "HTCLIENT"
            ELSE "HTCAPTION")
    ELSE "HTNOWHERE"

NonClientHitTestCode(b, ch, p) ==
  IF Contains([x |-> 0, y |-> 0, w |-> b.w, h |-> b.h], p)
    THEN (IF ViewID(GetEventHandlerForPoint(ch, p))
                \in { "VIEW_ID_MINIMIZE_BUTTON", "VIEW_ID_MAXIMIZE_BUTTON",
                      "VIEW_ID_RESTORE_BUTTON", "VIEW_ID_CLOSE_BUTTON" }
            THEN "HTCLIENT"
            ELSE "HTCAPTION")
    ELSE "HTNOWHERE"

\* Mutant: the restore button maximizes.
ButtonPressedCalls_RestoreMaximizes(sender) ==
  IF sender = "minimize_button_" THEN << "Minimize" >>
  ELSE IF sender = "maximize_button_" THEN << "Maximize" >>
  ELSE IF sender = "restore_button_" THEN << "Maximize" >>
  ELSE IF sender = "close_button_"
    THEN << "CloseWithReason(kCloseButtonClicked)" >>
  ELSE << >>

\* The window operations ButtonPressed calls for a sender, in order.
ButtonPressedCalls(sender) ==
  IF sender = "minimize_button_" THEN << "Minimize" >>
  ELSE IF sender = "maximize_button_" THEN << "Maximize" >>
  ELSE IF sender = "restore_button_" THEN << "Restore" >>
  ELSE IF sender = "close_button_"
    THEN << "CloseWithReason(kCloseButtonClicked)" >>
  ELSE << >>

\* ------------------------------------------------------------- IconView
\* Mutant: a null bitmap is not noticed.
GetWindowIcon_IgnoresNullBitmap(icon_handle, bitmap_is_null) ==
  IF ~icon_handle THEN "null" ELSE "image"

\* GetWindowIcon: "null" for an empty gfx::ImageSkia, "image" otherwise.
GetWindowIcon(icon_handle, bitmap_is_null) ==
  IF ~icon_handle THEN "null"
  ELSE IF bitmap_is_null THEN "null"
  ELSE "image"

\* IconView::PaintIcon: the destination rectangle << x, y, w, h >> of the
\* image of size src_w x src_h drawn into a view of size w x h.
PaintIcon(w, h, src_w, src_h) ==
  LET small == src_w <= kFaviconSize /\ src_h <= kFaviconSize
      scalable_w == IF small THEN kFaviconSize ELSE src_w
      scalable_h == IF small THEN kFaviconSize ELSE src_h
      \* scale = min(w / scalable_w, h / scalable_h) as the fraction num / den
      byWidth == w * scalable_h <= h * scalable_w
      num == IF byWidth THEN w ELSE h
      den == IF byWidth THEN scalable_w ELSE scalable_h
      dest_w == CDiv(src_w * num, den)
      dest_h == CDiv(src_h * num, den)
  IN  << CDiv(w - dest_w, 2), CDiv(h - dest_h, 2), dest_w, dest_h >>

\* How many times PaintButtonContents calls PaintIcon.
PaintButtonContentsCalls(icon) == IF icon # "null" THEN 1 ELSE 0

\* --------------------------------------------------------- the last handler
NoLast ==
  [ op |-> "none", sender |-> "", calls |-> << >>, id |-> "", code |-> "", handlers |-> 0, icon_handle |-> FALSE,
    bitmap_is_null |-> FALSE, icon |-> "", paints |-> 0, draw |-> << >>,
    height |-> 0 ]

Did(op) == [NoLast EXCEPT !.op = op]

\* ---------------------------------------------------------------- Init
ZeroChild == [x |-> 0, y |-> 0, w |-> 0, h |-> 0, visible |-> TRUE]

Init ==
  /\ hasWidget = FALSE
  /\ everAdded = FALSE
  /\ observers = 0
  /\ win = "normal"
  /\ delegateTitle \in Titles
  /\ bounds = [w |-> 0, h |-> 0]
  /\ child = [c \in Children |-> ZeroChild]
  /\ text = ""
  /\ background = GetFrameColor(FALSE, FALSE)
  /\ \/ pref \in PrefTables /\ metrics = DefaultMetrics
     \/ pref = DefaultPref /\ metrics \in MetricTables
  /\ halted = FALSE
  /\ last = NoLast

\* ------------------------------------------------------------- actions
\* Layout() run by the title bar in the current state.
LayoutNow(attached) ==
  Layout(child, text, attached, bounds.w, IsMaximized, delegateTitle, pref, metrics)

DoLayout(attached) ==
  /\ child' = LayoutNow(attached).child
  /\ text' = LayoutNow(attached).text

\* The view is added to the widget's view tree and the toolkit calls
\* AddedToWidget.
AddedToWidget ==
  /\ ~halted
  /\ win # "closed"
  /\ hasWidget' = TRUE
  /\ everAdded' = TRUE
  /\ DoLayout(TRUE)
  /\ observers' = RegisterObserver(observers)
  /\ last' = Did("AddedToWidget")
  /\ UNCHANGED << win, delegateTitle, bounds, background, pref, metrics, halted >>

\* The widget's activation changes and it notifies each registered observer;
\* every notification runs OnWidgetActivationChanged.
OnWidgetActivationChanged(isActive) ==
  /\ ~halted
  /\ win # "closed"
  /\ IF observers > 0
       THEN /\ background' = GetFrameColor(hasWidget, isActive)
            /\ DoLayout(hasWidget)
       ELSE UNCHANGED << background, child, text >>
  /\ last' = [Did("OnWidgetActivationChanged") EXCEPT !.handlers = observers]
  /\ UNCHANGED << hasWidget, everAdded, observers, win, delegateTitle, bounds, pref, metrics, halted >>

\* The toolkit lays the view out (views::View::Layout override).
LayoutAction ==
  /\ ~halted
  /\ DoLayout(hasWidget)
  /\ last' = Did("Layout")
  /\ UNCHANGED << hasWidget, everAdded, observers, win, delegateTitle, bounds,
                  background, pref, metrics, halted >>

UpdateWindowIcon ==
  /\ ~halted
  /\ DoLayout(hasWidget)
  /\ last' = Did("UpdateWindowIcon")
  /\ UNCHANGED << hasWidget, everAdded, observers, win, delegateTitle, bounds,
                  background, pref, metrics, halted >>

UpdateWindowTitle ==
  /\ ~halted
  /\ DoLayout(hasWidget)
  /\ last' = Did("UpdateWindowTitle")
  /\ UNCHANGED << hasWidget, everAdded, observers, win, delegateTitle, bounds,
                  background, pref, metrics, halted >>

\* A button whose listener is the title bar is pressed.  Without a widget the
\* four caption branches call through a null pointer and the process dies.
ButtonPressed(sender) ==
  /\ ~halted
  /\ IF hasWidget \/ ButtonPressedCalls(sender) = << >>
       THEN /\ win' = ApplyOps(ButtonPressedCalls(sender), win)
            /\ last' = [Did("ButtonPressed") EXCEPT
                          !.sender = sender, !.calls = ButtonPressedCalls(sender)]
            /\ UNCHANGED halted
       ELSE /\ halted' = TRUE
            /\ last' = [Did("ButtonPressed") EXCEPT !.sender = sender]
            /\ UNCHANGED win
  /\ UNCHANGED << hasWidget, everAdded, observers, delegateTitle, bounds, child,
                  text, background, pref, metrics >>

\* The frame view asks the title bar, a view of its widget, about a point.
NonClientHitTest(p) ==
  /\ ~halted
  /\ hasWidget
  /\ last' = [Did("NonClientHitTest") EXCEPT
                !.id = IF NonClientHitTestCode(bounds, child, p) = "HTNOWHERE"
                         THEN ""
                         ELSE ViewID(GetEventHandlerForPoint(child, p)),
                !.code = NonClientHitTestCode(bounds, child, p)]
  /\ UNCHANGED << hasWidget, everAdded, observers, win, delegateTitle, bounds,
                  child, text, background, pref, metrics, halted >>

HeightQuery ==
  /\ ~halted
  /\ last' = [Did("Height") EXCEPT
                !.height = Height(metrics, hasWidget, IsMaximized)]
  /\ UNCHANGED << hasWidget, everAdded, observers, win, delegateTitle, bounds,
                  child, text, background, pref, metrics, halted >>

\* IconView::PaintButtonContents, run when the widget paints its views;
\* LoadIcon and the bitmap conversion may fail.
PaintButtonContents(icon_handle, bitmap_is_null, size) ==
  /\ ~halted
  /\ hasWidget
  /\ LET icon == GetWindowIcon(icon_handle, bitmap_is_null)
         n == PaintButtonContentsCalls(icon)
     IN  last' = [Did("PaintButtonContents") EXCEPT
                    !.icon_handle = icon_handle,
                    !.bitmap_is_null = bitmap_is_null,
                    !.icon = icon,
                    !.paints = n,
                    !.draw = IF n > 0
                               THEN PaintIcon(child["window_icon_"].w,
                                              child["window_icon_"].h, size, size)
                               ELSE << >>]
  /\ UNCHANGED << hasWidget, everAdded, observers, win, delegateTitle, bounds,
                  child, text, background, pref, metrics, halted >>

\* ---------------------------------------------------------- environment
\* The view is taken out of the widget's view tree.  The title bar has no
\* RemovedFromWidget override, so it stays in the widget's observer list.
RemovedFromWidget ==
  /\ ~halted
  /\ hasWidget
  /\ hasWidget' = FALSE
  /\ last' = NoLast
  /\ UNCHANGED << everAdded, observers, win, delegateTitle, bounds, child, text,
                  background, pref, metrics, halted >>

\* The parent view gives the title bar new bounds; views::View::SetBoundsRect
\* lays the view out when its size changes.  A view taken out of the widget's
\* tree has no parent that resizes it.
SetBoundsRect(w) ==
  /\ ~halted
  /\ hasWidget \/ ~everAdded
  /\ bounds # [w |-> w, h |-> MaxHeight]
  /\ bounds' = [w |-> w, h |-> MaxHeight]
  /\ child' = Layout(child, text, hasWidget, w, IsMaximized, delegateTitle,
                     pref, metrics).child
  /\ text' = Layout(child, text, hasWidget, w, IsMaximized, delegateTitle,
                    pref, metrics).text
  /\ last' = Did("SetBoundsRect")
  /\ UNCHANGED << hasWidget, everAdded, observers, win, delegateTitle, background,
                  pref, metrics, halted >>

\* The application sets the window title.
SetTitle(t) ==
  /\ ~halted
  /\ delegateTitle # t
  /\ delegateTitle' = t
  /\ last' = NoLast
  /\ UNCHANGED << hasWidget, everAdded, observers, win, bounds, child, text,
                  background, pref, metrics, halted >>

\* The user maximizes, restores or minimizes the window through the system.
WindowStateChanged(s) ==
  /\ ~halted
  /\ win # "closed"
  /\ win # s
  /\ win' = s
  /\ last' = NoLast
  /\ UNCHANGED << hasWidget, everAdded, observers, delegateTitle, bounds, child,
                  text, background, pref, metrics, halted >>

Next ==
  \/ AddedToWidget
  \/ \E a \in BOOLEAN : OnWidgetActivationChanged(a)
  \/ LayoutAction
  \/ UpdateWindowIcon
  \/ UpdateWindowTitle
  \/ \E s \in Senders : ButtonPressed(s)
  \/ \E p \in Points : NonClientHitTest(p)
  \/ HeightQuery
  \/ \E ih \in BOOLEAN, bn \in BOOLEAN, sz \in ImageSizes :
        PaintButtonContents(ih, bn, sz)
  \/ \E w \in Widths : SetBoundsRect(w)
  \/ RemovedFromWidget
  \/ \E t \in Titles : SetTitle(t)
  \/ \E s \in { "normal", "maximized", "minimized" } : WindowStateChanged(s)

Spec == Init /\ [][Next]_vars

\* ================================================================ claims
Visible(c) == child[c].visible

\* The most recent handler ran Layout().
LayoutRan ==
  \/ last.op \in { "AddedToWidget", "Layout", "UpdateWindowIcon",
                    "UpdateWindowTitle", "SetBoundsRect" }
  \/ last.op = "OnWidgetActivationChanged" /\ last.handlers > 0

\* The state right after Layout() has run on a title bar that has a widget.
LayoutRanAttached == hasWidget /\ LayoutRan

\* C1: right after Layout has run on a title bar attached to a widget, the
\* restore button is visible iff the widget is maximized and the maximize
\* button is visible iff it is not.
RestoreVisibleIffMaximized ==
  /\ Visible("restore_button_") <=> (win = "maximized")
  /\ Visible("maximize_button_") <=> (win # "maximized")

C1_RestoreVisibleIffMaximizedAfterLayout ==
  LayoutRanAttached => RestoreVisibleIffMaximized

C1_Witness ==
  /\ LayoutRanAttached
  /\ win = "maximized"
  /\ Visible("restore_button_")
  /\ ~Visible("maximize_button_")

\* C2: ButtonPressed on an attached title bar calls exactly the one window
\* operation that belongs to the sender, and for a sender that is no caption
\* button it calls none and leaves the window state alone.
DispatchTable ==
  [ s \in Senders |->
      CASE s = "minimize_button_" -> << "Minimize" >>
        [] s = "maximize_button_" -> << "Maximize" >>
        [] s = "restore_button_"  -> << "Restore" >>
        [] s = "close_button_"    -> << "CloseWithReason(kCloseButtonClicked)" >>
        [] OTHER                  -> << >> ]

C2_FourWayDispatch ==
  [][\A s \in Senders :
       (hasWidget /\ last'.op = "ButtonPressed" /\ last'.sender = s) =>
         /\ last'.calls = DispatchTable[s]
         /\ ~halted'
         /\ (s \notin CaptionButtons => win' = win)]_vars

C2_Witness ==
  /\ hasWidget
  /\ last.op = "ButtonPressed"
  /\ last.sender = "restore_button_"
  /\ last.calls = << "Restore" >>
  /\ win = "normal"

\* C3: NonClientHitTest answers every point with exactly one of HTNOWHERE (iff
\* the point is outside the bounds), HTCLIENT (iff inside and the view handling
\* events there is the minimize, maximize, restore or close button) and
\* HTCAPTION (every other point inside).
HitTestCodes == { "HTNOWHERE", "HTCLIENT", "HTCAPTION" }

CaptionButtonIDs ==
  { "VIEW_ID_MINIMIZE_BUTTON", "VIEW_ID_MAXIMIZE_BUTTON",
    "VIEW_ID_RESTORE_BUTTON", "VIEW_ID_CLOSE_BUTTON" }

InsideBounds(p) ==
  /\ 0 <= p[1]
  /\ p[1] < bounds.w
  /\ 0 <= p[2]
  /\ p[2] < bounds.h

C3_HitTestThreeWay ==
  /\ \A p \in Points :
       LET code == NonClientHitTestCode(bounds, child, p)
           handler == GetEventHandlerForPoint(child, p)
       IN  /\ code \in HitTestCodes
           /\ (code = "HTNOWHERE") <=> ~InsideBounds(p)
           /\ (code = "HTCLIENT") <=> (InsideBounds(p) /\ handler \in CaptionButtons)
           /\ (code = "HTCAPTION") <=> (InsideBounds(p) /\ handler \notin CaptionButtons)
  /\ last.op = "NonClientHitTest" =>
       /\ last.code \in HitTestCodes
       /\ (last.code = "HTCLIENT") <=> (last.id \in CaptionButtonIDs)

C3_Witness ==
  /\ last.op = "NonClientHitTest"
  /\ last.code = "HTCLIENT"
  /\ last.id = "VIEW_ID_RESTORE_BUTTON"
  /\ \E p \in Points : NonClientHitTestCode(bounds, child, p) = "HTCAPTION"
  /\ \E p \in Points : NonClientHitTestCode(bounds, child, p) = "HTNOWHERE"

\* gfx::Rect::Intersects: two non-empty rectangles share a point.
Intersects(r1, r2) ==
  /\ r1.w > 0 /\ r1.h > 0
  /\ r2.w > 0 /\ r2.h > 0
  /\ r1.x < Right(r2)
  /\ r2.x < Right(r1)
  /\ r1.y < Bottom(r2)
  /\ r2.y < Bottom(r1)

NoVisibleCaptionButtonsOverlap ==
  \A a, b \in CaptionButtons :
    (a # b /\ Visible(a) /\ Visible(b)) => ~Intersects(child[a], child[b])

CaptionButtonsChained ==
  /\ \A b \in CaptionButtons :
       /\ child[b].y = 0
       /\ child[b].w = pref[b].w
       /\ child[b].h = pref[b].h
  /\ Right(child["close_button_"]) = bounds.w
  /\ Right(child["maximize_button_"]) = child["close_button_"].x
  /\ Right(child["restore_button_"]) = child["close_button_"].x
  /\ Right(child["minimize_button_"]) = child["maximize_button_"].x
  /\ child["minimize_button_"].x <= child["maximize_button_"].x
  /\ child["maximize_button_"].x <= child["close_button_"].x
  /\ child["close_button_"].x <= bounds.w

\* C4 as stated: after LayoutCaptionButtons the caption buttons sit
\* right-to-left at y = 0 with their preferred sizes: close ends at the title
\* bar's width, maximize and restore both end where close begins, minimize ends
\* where maximize begins; so minimize.x <= maximize.x <= close.x <= width and
\* no two visible caption buttons overlap.
C4_Original ==
  LayoutRanAttached => (CaptionButtonsChained /\ NoVisibleCaptionButtonsOverlap)

\* C4 (amended): the positions are as stated, and no two visible caption
\* buttons overlap provided the restore button's preferred width is not larger
\* than the maximize button's; minimize is placed against the maximize
\* button's slot even while the restore button is the one shown.
C4_CaptionButtonsRightToLeft ==
  LayoutRanAttached =>
    /\ CaptionButtonsChained
    /\ (pref["restore_button_"].w <= pref["maximize_button_"].w)
         => NoVisibleCaptionButtonsOverlap

C4_Witness ==
  /\ LayoutRanAttached
  /\ bounds.w = MaxWidth
  /\ win = "maximized"
  /\ Visible("restore_button_")
  /\ CaptionButtonsChained
  /\ NoVisibleCaptionButtonsOverlap
  /\ child["restore_button_"].w < child["maximize_button_"].w
  /\ child["minimize_button_"].x > 0

\* C5: Height() is SM_CYCAPTION + SM_CYSIZEFRAME when the title bar has a
\* widget and the widget is maximized, and SM_CYCAPTION + SM_CYSIZEFRAME +
\* SM_CYEDGE otherwise; the maximized height is never the larger one and the
\* two differ by exactly SM_CYEDGE.
C5_HeightFromMetrics ==
  /\ last.op = "Height" =>
       last.height =
         IF hasWidget /\ win = "maximized"
           THEN metrics["SM_CYCAPTION"] + metrics["SM_CYSIZEFRAME"]
           ELSE metrics["SM_CYCAPTION"] + metrics["SM_CYSIZEFRAME"]
                  + metrics["SM_CYEDGE"]
  /\ Height(metrics, TRUE, TRUE) <= Height(metrics, TRUE, FALSE)
  /\ Height(metrics, TRUE, FALSE) - Height(metrics, TRUE, TRUE)
       = metrics["SM_CYEDGE"]
  /\ Height(metrics, FALSE, TRUE) = Height(metrics, TRUE, FALSE)
  /\ Height(metrics, FALSE, FALSE) = Height(metrics, TRUE, FALSE)

C5_Witness ==
  /\ last.op = "Height"
  /\ hasWidget
  /\ win = "maximized"
  /\ metrics["SM_CYEDGE"] > 1
  /\ last.height = metrics["SM_CYCAPTION"] + metrics["SM_CYSIZEFRAME"]

\* C6: after LayoutTitleBar on an attached title bar the hamburger button is at
\* (0,0) with its preferred size, the title starts 5 past the hamburger
\* button's right edge, its width is max(0, minimize.x - title.x) and so never
\* negative, it ends at or before minimize.x whenever minimize.x >= title.x,
\* and the title text is the delegate's current window title.
TitleLaidOut ==
  LET hamburger == child["hamburger_button_"]
      title == child["window_title_"]
      minimize == child["minimize_button_"]
  IN  /\ hamburger.x = 0
      /\ hamburger.y = 0
      /\ hamburger.w = pref["hamburger_button_"].w
      /\ hamburger.h = pref["hamburger_button_"].h
      /\ title.x = Right(hamburger) + 5
      /\ title.w = (IF minimize.x - title.x > 0 THEN minimize.x - title.x ELSE 0)
      /\ title.w >= 0
      /\ (minimize.x >= title.x) => (Right(title) <= minimize.x)
      /\ text = delegateTitle

C6_TitleLaidOut ==
  LayoutRanAttached => TitleLaidOut

C6_Witness ==
  /\ LayoutRanAttached
  /\ TitleLaidOut
  /\ child["window_title_"].w > 0
  /\ text = "b"

C6_WitnessClamped ==
  /\ LayoutRanAttached
  /\ TitleLaidOut
  /\ child["minimize_button_"].x < child["window_title_"].x
  /\ child["window_title_"].w = 0

\* C7: when LoadIcon gives no handle or the icon's bitmap is null,
\* GetWindowIcon returns an empty image and PaintButtonContents draws nothing;
\* PaintIcon is called exactly when the image is not null; no error is raised.
C7_NullIconDrawsNothing ==
  last.op = "PaintButtonContents" =>
    /\ (last.icon = "null") <=> (~last.icon_handle \/ last.bitmap_is_null)
    /\ (last.paints = 1) <=> (last.icon # "null")
    /\ (last.paints = 0) <=> (last.icon = "null")
    /\ (last.icon = "null") => (last.draw = << >>)
    /\ ~halted

C7_Witness ==
  /\ last.op = "PaintButtonContents"
  /\ last.icon_handle
  /\ last.bitmap_is_null
  /\ last.icon = "null"
  /\ last.paints = 0

\* C8: once Layout has run on an attached title bar, in every later state
\* exactly one of the maximize and restore buttons is visible.
C8_ExactlyOneOfMaximizeRestore ==
  everAdded => (Visible("maximize_button_") # Visible("restore_button_"))

C8_Witness ==
  /\ everAdded
  /\ last.op = "ButtonPressed"
  /\ last.calls = << "Maximize" >>
  /\ win = "maximized"
  /\ Visible("maximize_button_")
  /\ ~Visible("restore_button_")

\* C9: while the title bar has no widget, Layout (called directly, through
\* UpdateWindowIcon or UpdateWindowTitle, or as the Layout step of
\* OnWidgetActivationChanged) changes no child's bounds or visibility and
\* leaves the title text alone.
C9_LayoutWithoutWidgetIsNoOp ==
  [][(~hasWidget' /\ LayoutRan') => (child' = child /\ text' = text)]_vars

C9_Witness ==
  /\ ~hasWidget
  /\ last.op = "OnWidgetActivationChanged"
  /\ last.handlers = 1
  /\ text # delegateTitle
  /\ Visible("maximize_button_") = (win = "maximized")

\* C10: after any number (>= 1) of AddedToWidget calls the title bar is in the
\* widget's observer list exactly once, so each activation change runs
\* OnWidgetActivationChanged (UpdateViewColors and Layout) exactly once.
C10_RegisteredExactlyOnce ==
  /\ observers <= 1
  /\ everAdded => observers = 1
  /\ (everAdded /\ last.op = "OnWidgetActivationChanged") => last.handlers = 1

C10_Witness ==
  /\ everAdded
  /\ observers = 1
  /\ last.op = "OnWidgetActivationChanged"
  /\ last.handlers = 1
  /\ background = "COLOR_FRAME"

====
